---- MODULE Spec2Model ----
(***************************************************************************)
(* The action dispatch engine of the terminal application: App::run        *)
(* (src/src/app.rs), the keybinding resolver inside it, the action bus     *)
(* (tokio unbounded mpsc channel), the components' update / raw key        *)
(* handlers, and the background tasks Home spawns.                         *)
(*                                                                         *)
(* An action is a triple <<family, variant, argument>>, e.g.               *)
(* <<"Engine","Tick","">>, <<"Home","NavigateList","Up">>.                 *)
(* A bus entry is a record [act, src]: src is a ghost tag naming the       *)
(* producer that enqueued it (the code's channel carries only act).        *)
(***************************************************************************)
EXTENDS Integers, Sequences, FiniteSets, TLC

VARIABLES
  pc,                    \* position of App::run
  tui,                   \* terminal session owned by the loop
  action_rx,             \* the bus: entries sent and not yet received
  should_quit,
  should_suspend,
  mode,                  \* App.mode
  last_tick_key_events,  \* App.last_tick_key_events (pending key buffer)
  components,            \* App.components, in registration order
  config,                \* App.config: the keybindings (and the keys the run presses)
  main_menu,             \* MainMenu private state
  help_screen,           \* HelpScreen private state
  mode_switcher,         \* ModeSwitcher private state
  home,                  \* Home private state
  tasks,                 \* in-flight background tasks: <<kind, sends done>> -> how many
  nsched,                \* ghost: Schedule* actions the resolver has emitted
  fed,                   \* ghost: <<key, mode>> of every key pressed since the buffer was last cleared
  emitted,               \* ghost: what the resolver enqueued for the last key event
  last,                  \* ghost: the kind of the loop's last step
  trail,                 \* ghost: the bus entry the loop dequeued last
  drained,               \* ghost: keys the Tick just processed removed from the buffer
  nextern,               \* ghost: actions sent by a sender clone acting on its own (SpecOpen only)
  setup_calls,           \* ghost: the setup calls run() made on the components before the loop, in order
  tui_calls,             \* ghost: the terminal calls the loop made since it last awaited an event
  task_log,              \* ghost: the actions sent by background tasks that the loop has dequeued, in order
  fanout,                \* ghost: who was drawn and updated, and what came back, for the action dequeued last
  late,                  \* ghost: how many queued entries a task sent after Quit had been dequeued
  codec                  \* an Action put through Display and Deserialize (SpecCodec only)

vars == <<pc, tui, action_rx, should_quit, should_suspend, mode, last_tick_key_events,
          components, config, main_menu, help_screen, mode_switcher, home, tasks,
          nsched, fed, emitted, last, trail, drained, nextern, setup_calls, tui_calls, task_log, fanout, late, codec>>

----------------------------------------------------------------------------
\* Bounds of the model.
MaxKeys == 2      \* key presses between two processed Ticks
MaxTasks == 1     \* Schedule* actions emitted in a run
MaxInput == 1     \* characters typed into Home.input
MaxText == 1      \* lines completed into Home.text
MaxExternal == 2  \* actions a sender clone sends on its own (SpecOpen)
MaxDim == 2       \* small widths, heights and counter steps put through the textual form (SpecCodec)
MaxMsg == 2       \* tokens in a message put through the textual form (SpecCodec)

----------------------------------------------------------------------------
\* Actions (src/src/actions.rs, actions/engine_actions.rs, actions/home_action.rs)
EngineAction(v) == <<"Engine", v, "">>
HomeAction(v) == <<"Home", v, "">>
ChangeMode(m) == <<"Engine", "ChangeMode", m>>
Resize(w, h) == <<"Engine", "Resize", <<w, h>>>>
EngineError(msg) == <<"Engine", "Error", msg>>
NavigateList(dir) == <<"Home", "NavigateList", dir>>
CompleteInput(s) == <<"Home", "CompleteInput", s>>

Tick == EngineAction("Tick")
Render == EngineAction("Render")
Suspend == EngineAction("Suspend")
Resume == EngineAction("Resume")
Quit == EngineAction("Quit")
ToggleShowHelp == EngineAction("ToggleShowHelp")
ToggleShowModeSwitcher == EngineAction("ToggleShowModeSwitcher")

Msg(a, s) == [act |-> a, src |-> s]
Tag(as, s) == [i \in 1..Len(as) |-> Msg(as[i], s)]
FromSrc(q, src) == SelectSeq(q, LAMBDA e : e.src = src)

\* app::Mode and components::mode_switcher::MODES
Modes == {"MainMenu", "Home"}
MODES == <<"MainMenu", "Home">>
\* LIST_OPS.len() (four entries in both home.rs and main_menu.rs)
LIST_OPS_len == 4

----------------------------------------------------------------------------
\* Small helpers
Last(s) == s[Len(s)]
Contains(s, x) == \E i \in 1..Len(s) : s[i] = x

----------------------------------------------------------------------------
\* Keybindings: mode -> (key sequence -> action).  Config loading is outside
\* the repository's sources; a run's configuration is an input.  Each
\* configuration also names the keys the run presses.
Bind(seq, a) == seq :> a

\* Disjoint single keys and chords, including a chord that extends a chord.
ConfigChords ==
  [ keys |-> {"g", "j", "x"},
    keybindings |->
      [ MainMenu |-> Bind(<<"j">>, NavigateList("Down")) @@ Bind(<<"g", "g">>, HomeAction("EnterNormal"))
                     @@ Bind(<<"g", "x">>, ToggleShowHelp) @@ Bind(<<"g", "x", "g">>, ToggleShowModeSwitcher),
        Home |-> Bind(<<"j">>, NavigateList("Up")) @@ Bind(<<"g", "g">>, HomeAction("EnterNormal"))
                 @@ Bind(<<"x", "g">>, NavigateList("Right")) ] ]

\* Chords that contain a key which is also bound on its own.
ConfigOverlap ==
  [ keys |-> {"g", "j", "x"},
    keybindings |->
      [ MainMenu |-> Bind(<<"g">>, ToggleShowHelp) @@ Bind(<<"g", "g">>, HomeAction("EnterNormal"))
                     @@ Bind(<<"x", "j">>, Quit) @@ Bind(<<"j">>, NavigateList("Down")),
        Home |-> Bind(<<"j">>, NavigateList("Up")) @@ Bind(<<"x", "j">>, NavigateList("Right"))
                 @@ Bind(<<"g", "x">>, NavigateList("Left")) ] ]

\* Insert mode of the Home screen.
ConfigInsert ==
  [ keys |-> {"i", "Enter", "Esc"},
    keybindings |->
      [ MainMenu |-> Bind(<<"i">>, HomeAction("EnterInsert")) @@ Bind(<<"z">>, Suspend),
        Home |-> Bind(<<"i">>, HomeAction("EnterInsert")) @@ Bind(<<"z">>, Suspend) ] ]

\* Suspend, from the normal and from the insert mode of the Home screen.
ConfigSuspend == [ConfigInsert EXCEPT !.keys = {"i", "z"}]

\* Scheduled background work of the Home screen.
ConfigSchedule ==
  [ keys |-> {"j", "k"},
    keybindings |->
      [ MainMenu |-> Bind(<<"j">>, HomeAction("ScheduleIncrement")) @@ Bind(<<"k">>, HomeAction("ScheduleDecrement")),
        Home |-> Bind(<<"j">>, HomeAction("ScheduleIncrement")) @@ Bind(<<"k">>, HomeAction("ScheduleDecrement")) ] ]

\* The same, with only one of the two keys pressed in a run.
ConfigScheduleIncrement == [ConfigSchedule EXCEPT !.keys = {"j"}]
ConfigScheduleDecrement == [ConfigSchedule EXCEPT !.keys = {"k"}]

\* j schedules an increment, n is bound to Home's EnterNormal
ConfigScheduleNormal ==
  [ keys |-> {"j", "n"},
    keybindings |->
      [ MainMenu |-> Bind(<<"j">>, HomeAction("ScheduleIncrement")) @@ Bind(<<"n">>, HomeAction("EnterNormal")),
        Home |-> Bind(<<"j">>, HomeAction("ScheduleIncrement")) @@ Bind(<<"n">>, HomeAction("EnterNormal")) ] ]

\* In both modes, j moves the mode selection down and k up
ConfigNavigate ==
  [ keys |-> {"j", "k"},
    keybindings |->
      [ MainMenu |-> Bind(<<"j">>, NavigateList("Down")) @@ Bind(<<"k">>, NavigateList("Up")),
        Home |-> Bind(<<"j">>, NavigateList("Down")) @@ Bind(<<"k">>, NavigateList("Up")) ] ]

\* g has no binding of its own in MainMenu and has one in Home, where it also
\* starts a chord; j switches from MainMenu to Home.
ConfigCarry ==
  [ keys |-> {"g", "j", "x"},
    keybindings |->
      [ MainMenu |-> Bind(<<"j">>, NavigateList("Down")),
        Home |-> Bind(<<"g">>, ToggleShowHelp) @@ Bind(<<"g", "x">>, NavigateList("Left")) ] ]

\* i enters Insert mode, and Enter is bound to Home's EnterNormal
ConfigEnterBound ==
  [ keys |-> {"i", "Enter"},
    keybindings |->
      [ MainMenu |-> Bind(<<"i">>, HomeAction("EnterInsert")) @@ Bind(<<"Enter">>, HomeAction("EnterNormal")),
        Home |-> Bind(<<"i">>, HomeAction("EnterInsert")) @@ Bind(<<"Enter">>, HomeAction("EnterNormal")) ] ]

\* The configurations that exercise the resolver and the loop, and those
\* that exercise what Home adds (its key handler, its background tasks).
ConfigsLoop == {ConfigChords, ConfigOverlap, ConfigSuspend}
ConfigsHome == {ConfigInsert, ConfigSuspend, ConfigScheduleIncrement, ConfigScheduleDecrement}

\* App::new registers MainMenu, HelpScreen and ModeSwitcher and builds Home
\* without registering it; `components` is a public field, and Home is a
\* Component, so the roster with Home pushed is covered as well.
RosterNew == <<"MainMenu", "HelpScreen", "ModeSwitcher">>
RosterHome == <<"MainMenu", "HelpScreen", "ModeSwitcher", "Home">>
Rosters == {RosterNew, RosterHome}

----------------------------------------------------------------------------
\* The keybinding resolver (app.rs 83-98)

\* keymap.get(&vec![key])
SingleKeyLookup(keymap, key) ==
  IF <<key>> \in DOMAIN keymap THEN <<keymap[<<key>>]>> ELSE <<>>

\* Mutant: the push replaces the buffer by the new key.
PushKeyOnly(buf, key) == <<key>>

\* Mutant: the push drops the oldest pending key.
PushKeyDropOldest(buf, key) == IF buf = <<>> THEN <<key>> ELSE Append(Tail(buf), key)

\* self.last_tick_key_events.push(key)
PushKey(buf, key) == Append(buf, key)

\* Mutant: a buffer that only starts a configured sequence already matches it.
ChordLookupPrefix(keymap, buf) ==
  LET hits == {s \in DOMAIN keymap : Len(buf) <= Len(s) /\ \A i \in 1..Len(buf) : buf[i] = s[i]}
  IN IF hits # {} THEN <<keymap[CHOOSE s \in hits : TRUE]>> ELSE <<>>

\* keymap.get(&self.last_tick_key_events)
ChordLookup(keymap, buf) ==
  IF buf \in DOMAIN keymap THEN <<keymap[buf]>> ELSE <<>>

\* Mutant: the buffer is emptied whenever a key resolves to an action.
ResolveKeyReset(kb, m, buf, key) ==
  IF m \in DOMAIN kb
  THEN LET keymap == kb[m]
           single == SingleKeyLookup(keymap, key)
       IN IF single # <<>>
          THEN [buf |-> <<>>, out |-> single]
          ELSE LET pushed == PushKey(buf, key)
                   chord == ChordLookup(keymap, pushed)
               IN [buf |-> IF chord # <<>> THEN <<>> ELSE pushed, out |-> chord]
  ELSE [buf |-> buf, out |-> <<>>]

\* Mutant: a single-key match falls through to the chord lookup.
ResolveKeyFallThrough(kb, m, buf, key) ==
  IF m \in DOMAIN kb
  THEN LET keymap == kb[m]
           pushed == PushKey(buf, key)
       IN [buf |-> pushed, out |-> SingleKeyLookup(keymap, key) \o ChordLookup(keymap, pushed)]
  ELSE [buf |-> buf, out |-> <<>>]

\* Mutant: a key with a binding of its own is appended to the buffer as well.
ResolveKeyPushesBound(kb, m, buf, key) ==
  IF m \in DOMAIN kb
  THEN LET keymap == kb[m]
           single == SingleKeyLookup(keymap, key)
       IN IF single # <<>>
          THEN [buf |-> PushKey(buf, key), out |-> single]
          ELSE LET pushed == PushKey(buf, key)
                   chord == ChordLookup(keymap, pushed)
               IN [buf |-> pushed, out |-> chord]
  ELSE [buf |-> buf, out |-> <<>>]

\* Mutant: keys are resolved against the table of the mode the loop started in.
ResolveKeyStaleMode(kb, m, buf, key) ==
  IF "MainMenu" \in DOMAIN kb
  THEN LET keymap == kb["MainMenu"]
           single == SingleKeyLookup(keymap, key)
       IN IF single # <<>>
          THEN [buf |-> buf, out |-> single]
          ELSE LET pushed == PushKey(buf, key)
                   chord == ChordLookup(keymap, pushed)
               IN [buf |-> pushed, out |-> chord]
  ELSE [buf |-> buf, out |-> <<>>]

\* Result: the new buffer and the actions sent (zero or one).
ResolveKey(kb, m, buf, key) ==
  IF m \in DOMAIN kb
  THEN LET keymap == kb[m]
           single == SingleKeyLookup(keymap, key)
       IN IF single # <<>>
          THEN [buf |-> buf, out |-> single]
          ELSE LET pushed == PushKey(buf, key)
                   chord == ChordLookup(keymap, pushed)
               IN [buf |-> pushed, out |-> chord]
  ELSE [buf |-> buf, out |-> <<>>]

\* Mutant: the Tick leaves the pending keys in place.
TickKeeps(buf) == buf

\* EngineAction::Tick => self.last_tick_key_events.drain(..)
TickDrain(buf) == <<>>

----------------------------------------------------------------------------
\* MainMenu (components/main_menu.rs)

\* MainMenuTabs::navigate_list
MainMenuTabs_navigate_list(item_index, dir) ==
  CASE dir = "Left" /\ item_index = 0 -> LIST_OPS_len - 1
    [] dir = "Left" /\ item_index # 0 -> item_index - 1
    [] dir = "Right" -> IF item_index = LIST_OPS_len - 1 THEN 0 ELSE item_index + 1
    [] OTHER -> item_index

\* MainMenu::update
MainMenu_update(s, a) ==
  IF a[2] = "NavigateList"
  THEN [s |-> [s EXCEPT !.item_index = MainMenuTabs_navigate_list(s.item_index, a[3])], ret |-> <<>>]
  ELSE [s |-> s, ret |-> <<>>]

----------------------------------------------------------------------------
\* HelpScreen (components/help_screen.rs)

\* Mutant: the help screen also toggles when a Resume is dispatched.
HelpScreen_updateOnResume(s, a) ==
  IF a = ToggleShowHelp \/ a = Resume
  THEN [s |-> [s EXCEPT !.show_help = ~s.show_help], ret |-> <<>>]
  ELSE [s |-> s, ret |-> <<>>]

\* HelpScreen::update
HelpScreen_update(s, a) ==
  IF a = ToggleShowHelp
  THEN [s |-> [s EXCEPT !.show_help = ~s.show_help], ret |-> <<>>]
  ELSE [s |-> s, ret |-> <<>>]

----------------------------------------------------------------------------
\* ModeSwitcher (components/mode_switcher.rs)

\* Mutant: past the last index the selection wraps round to the first.
ClampedIndexWrapping(current_index, offset) ==
  LET ni == current_index + offset
  IN IF ni < 0 THEN <<>>
     ELSE <<IF ni > Len(MODES) - 1 THEN 0 ELSE ni>>

\* usize::checked_add_signed followed by clamp(0, MODES.len() - 1);
\* <<>> stands for None (the sum left the range of usize).
ClampedIndex(current_index, offset) ==
  LET ni == current_index + offset
  IN IF ni < 0 THEN <<>>
     ELSE <<IF ni > Len(MODES) - 1 THEN Len(MODES) - 1 ELSE ni>>

\* Mutant: the selection moves and no ChangeMode is returned.
ModeSwitcher_select_modeSilent(s, offset) ==
  LET new_index_option == ClampedIndex(s.current_index, offset)
  IN IF new_index_option = <<>>
     THEN [s |-> s, ret |-> <<>>]
     ELSE [s |-> [s EXCEPT !.current_index = new_index_option[1]], ret |-> <<>>]

\* ModeSwitcher::select_mode
ModeSwitcher_select_mode(s, offset) ==
  LET new_index_option == ClampedIndex(s.current_index, offset)
  IN IF new_index_option = <<>>
     THEN [s |-> s, ret |-> <<>>]
     ELSE LET ni == new_index_option[1]
          IN [s |-> [s EXCEPT !.current_index = ni], ret |-> <<ChangeMode(MODES[ni + 1])>>]

\* ModeSwitcher::update
ModeSwitcher_update(s, a) ==
  CASE a = NavigateList("Up") -> ModeSwitcher_select_mode(s, -1)
    [] a = NavigateList("Down") -> ModeSwitcher_select_mode(s, 1)
    [] a = ToggleShowModeSwitcher -> [s |-> [s EXCEPT !.show_menu = ~s.show_menu], ret |-> <<>>]
    [] OTHER -> [s |-> s, ret |-> <<>>]

----------------------------------------------------------------------------
\* Home (components/home.rs)

\* Home::increment: usize::saturating_add (the cap 2^64 - 1 is out of reach)
Home_increment(counter, i) == counter + i

\* Mutant: the subtraction does not stop at 0.
Home_decrementUnchecked(counter, i) == counter - i

\* Home::decrement: usize::saturating_sub
Home_decrement(counter, i) == IF counter < i THEN 0 ELSE counter - i

\* Home::navigate_list
Home_navigate_list(s, dir) ==
  IF s.mode = "Normal"
  THEN CASE dir = "Left" /\ s.todo_op_index = 0 -> [s EXCEPT !.todo_op_index = LIST_OPS_len - 1]
         [] dir = "Left" /\ s.todo_op_index # 0 -> [s EXCEPT !.todo_op_index = s.todo_op_index - 1]
         [] dir = "Right" ->
              [s EXCEPT !.todo_op_index = IF s.todo_op_index = LIST_OPS_len - 1 THEN 0 ELSE s.todo_op_index + 1]
         [] OTHER -> s
  ELSE s

\* Home::update.  spawn lists the background tasks started (schedule_increment,
\* schedule_decrement), by the counter action they will send.
Home_update(s, a) ==
  LET same == [s |-> s, ret |-> <<>>, spawn |-> <<>>]
  IN IF a[1] = "Home"
     THEN CASE a[2] = "ScheduleIncrement" -> [same EXCEPT !.spawn = <<"Increment">>]
            [] a[2] = "ScheduleDecrement" -> [same EXCEPT !.spawn = <<"Decrement">>]
            [] a[2] = "Increment" -> [same EXCEPT !.s.counter = Home_increment(s.counter, a[3])]
            [] a[2] = "Decrement" -> [same EXCEPT !.s.counter = Home_decrement(s.counter, a[3])]
            [] a[2] = "CompleteInput" -> [same EXCEPT !.s.text = Append(s.text, a[3])]
            [] a[2] = "EnterNormal" -> [same EXCEPT !.s.mode = "Normal"]
            [] a[2] = "EnterInsert" -> [same EXCEPT !.s.mode = "Insert"]
            [] a[2] = "EnterProcessing" -> [same EXCEPT !.s.mode = "Processing"]
            [] a[2] = "NavigateList" -> [same EXCEPT !.s = Home_navigate_list(s, a[3])]
            [] a[2] = "ExitProcessing" -> [same EXCEPT !.s.mode = "Normal"]
            [] OTHER -> same
     ELSE same

\* Mutant: on Enter the handler returns EnterNormal and sends CompleteInput after it.
Home_handle_key_eventsNormalFirst(s, key) ==
  CASE s.mode \in {"Normal", "Processing"} -> [s |-> s, sent |-> <<>>, ret |-> <<>>]
    [] s.mode = "Insert" /\ key = "Esc" -> [s |-> s, sent |-> <<>>, ret |-> <<HomeAction("EnterNormal")>>]
    [] s.mode = "Insert" /\ key = "Enter" ->
         [s |-> s,
          sent |-> <<HomeAction("EnterNormal")>>,
          ret |-> IF s.action_tx THEN <<CompleteInput(s.input)>> ELSE <<>>]
    [] OTHER -> [s |-> [s EXCEPT !.input = Append(s.input, key)], sent |-> <<>>, ret |-> <<HomeAction("Update")>>]

\* Home::handle_key_events.  sent: what it sends on its own action_tx;
\* ret: the action it returns.
Home_handle_key_events(s, key) ==
  CASE s.mode \in {"Normal", "Processing"} -> [s |-> s, sent |-> <<>>, ret |-> <<>>]
    [] s.mode = "Insert" /\ key = "Esc" -> [s |-> s, sent |-> <<>>, ret |-> <<HomeAction("EnterNormal")>>]
    [] s.mode = "Insert" /\ key = "Enter" ->
         [s |-> s,
          sent |-> IF s.action_tx THEN <<CompleteInput(s.input)>> ELSE <<>>,
          ret |-> <<HomeAction("EnterNormal")>>]
    [] OTHER -> [s |-> [s EXCEPT !.input = Append(s.input, key)], sent |-> <<>>, ret |-> <<HomeAction("Update")>>]

\* Mutant: the task sends the counter action before EnterProcessing.
TaskMessageSwapped(kind, done) ==
  CASE done = 0 -> <<"Home", kind, 1>>
    [] done = 1 -> <<"Home", "EnterProcessing", "">>
    [] OTHER -> <<"Home", "ExitProcessing", "">>

\* The three actions a scheduled task sends, in order (schedule_increment,
\* schedule_decrement); kind is "Increment" or "Decrement".
TaskKinds == {"Increment", "Decrement"}
TaskSteps == {0, 1, 2}
TaskMessage(kind, done) ==
  CASE done = 0 -> HomeAction("EnterProcessing")
    [] done = 1 -> <<"Home", kind, 1>>
    [] OTHER -> HomeAction("ExitProcessing")

----------------------------------------------------------------------------
\* Fan-out over App.components.  st gathers the components' private state.
State == [main_menu |-> main_menu, help_screen |-> help_screen,
          mode_switcher |-> mode_switcher, home |-> home]

\* component.update(action.clone()) for one component.  err: the call returned
\* Err.  No update of the repository's components does; FailingUpdate stands
\* for a registered component whose update does when fail is set.
Component_update(c, st, a, fail) ==
  CASE c = "MainMenu" ->
         LET r == MainMenu_update(st.main_menu, a)
         IN [st |-> [st EXCEPT !.main_menu = r.s], ret |-> r.ret, spawn |-> <<>>, err |-> FALSE]
    [] c = "HelpScreen" ->
         LET r == HelpScreen_update(st.help_screen, a)
         IN [st |-> [st EXCEPT !.help_screen = r.s], ret |-> r.ret, spawn |-> <<>>, err |-> FALSE]
    [] c = "ModeSwitcher" ->
         LET r == ModeSwitcher_update(st.mode_switcher, a)
         IN [st |-> [st EXCEPT !.mode_switcher = r.s], ret |-> r.ret, spawn |-> <<>>, err |-> FALSE]
    [] c = "Home" ->
         LET r == Home_update(st.home, a)
         IN [st |-> [st EXCEPT !.home = r.s], ret |-> r.ret, spawn |-> r.spawn, err |-> FALSE]
    [] c = "FailingUpdate" -> [st |-> st, ret |-> <<>>, spawn |-> <<>>, err |-> fail]
    [] OTHER -> [st |-> st, ret |-> <<>>, spawn |-> <<>>, err |-> FALSE]

\* Mutant: lifecycle actions are applied by the loop only and not passed on.
RECURSIVE UpdateAllDomainOnly(_, _, _, _, _)
UpdateAllDomainOnly(cs, i, acc, a, fail) ==
  IF i > Len(cs) \/ a[1] = "Engine" THEN acc
  ELSE LET r == Component_update(cs[i], acc.st, a, fail)
           called == Append(acc.updated, cs[i])
       IN IF r.err
          THEN [acc EXCEPT !.updated = called, !.err = TRUE]
          ELSE LET next == [st |-> r.st, out |-> acc.out \o Tag(r.ret, "update"),
                            spawn |-> acc.spawn \o r.spawn, updated |-> called, err |-> FALSE]
               IN CHOOSE res \in {UpdateAllDomainOnly(cs, i + 1, n, a, fail) : n \in {next}} : TRUE

\* for component in self.components.iter_mut() { component.update(..)? .. } (app.rs 147-151):
\* the `?` leaves run() at the first Err, before the components that follow.
\* updated: the components called, in order.  (CHOOSE over the one-element
\* set: the state a call leaves is computed once, before the next call.)
RECURSIVE UpdateAll(_, _, _, _, _)
UpdateAll(cs, i, acc, a, fail) ==
  IF i > Len(cs) THEN acc
  ELSE LET r == Component_update(cs[i], acc.st, a, fail)
           called == Append(acc.updated, cs[i])
       IN IF r.err
          THEN [acc EXCEPT !.updated = called, !.err = TRUE]
          ELSE LET next == [st |-> r.st, out |-> acc.out \o Tag(r.ret, "update"),
                            spawn |-> acc.spawn \o r.spawn, updated |-> called, err |-> FALSE]
               IN CHOOSE res \in {UpdateAll(cs, i + 1, n, a, fail) : n \in {next}} : TRUE

\* Component::handle_events: a key event goes to handle_key_events, which only
\* Home overrides; every other event, and every other component, yields None.
Component_handle_events(c, st, e) ==
  IF c = "Home" /\ e[1] = "Key"
  THEN LET r == Home_handle_key_events(st.home, e[2])
       IN [st |-> [st EXCEPT !.home = r.s], out |-> Tag(r.sent \o r.ret, "handler")]
  ELSE [st |-> st, out |-> <<>>]

\* Mutant: only the component registered first is offered the raw event.
HandleEventsFirstOnly(cs, i, acc, e) ==
  IF i > Len(cs) THEN acc
  ELSE LET r == Component_handle_events(cs[i], acc.st, e)
       IN [st |-> r.st, out |-> acc.out \o r.out, handled |-> Append(acc.handled, cs[i])]

\* for component in self.components.iter_mut() { component.handle_events(..) } (app.rs 102-106)
\* handled: the components called, in order.
RECURSIVE HandleEventsAll(_, _, _, _)
HandleEventsAll(cs, i, acc, e) ==
  IF i > Len(cs) THEN acc
  ELSE LET r == Component_handle_events(cs[i], acc.st, e)
           next == [st |-> r.st, out |-> acc.out \o r.out, handled |-> Append(acc.handled, cs[i])]
       IN CHOOSE res \in {HandleEventsAll(cs, i + 1, n, e) : n \in {next}} : TRUE

\* component.draw(f, f.size()) inside tui.draw (app.rs 126-129, 136-139): what
\* the loop sends for the call's result.  Every draw of the repository's
\* components returns Ok(()); FailingDraw stands for a registered component
\* whose draw returns Err when fail is set.
Component_draw(c, st, fail) ==
  IF c = "FailingDraw" /\ fail THEN <<EngineError("Failed to draw")>> ELSE <<>>

\* for component in self.components.iter_mut() { component.draw(..) .. }
\* drawn: the components drawn, in order; failed: those whose draw returned Err.
\* Mutant: the redraw stops at the first draw that returns Err.
RECURSIVE DrawAllStopsAtError(_, _, _, _, _)
DrawAllStopsAtError(cs, i, acc, st, fail) ==
  IF i > Len(cs) THEN acc
  ELSE LET sent == Component_draw(cs[i], st, fail)
           next == [out |-> acc.out \o Tag(sent, "draw"),
                    drawn |-> Append(acc.drawn, cs[i]),
                    failed |-> IF sent # <<>> THEN Append(acc.failed, cs[i]) ELSE acc.failed]
       IN IF sent # <<>> THEN next
          ELSE CHOOSE res \in {DrawAllStopsAtError(cs, i + 1, n, st, fail) : n \in {next}} : TRUE

RECURSIVE DrawAll(_, _, _, _, _)
DrawAll(cs, i, acc, st, fail) ==
  IF i > Len(cs) THEN acc
  ELSE LET sent == Component_draw(cs[i], st, fail)
           next == [out |-> acc.out \o Tag(sent, "draw"),
                    drawn |-> Append(acc.drawn, cs[i]),
                    failed |-> IF sent # <<>> THEN Append(acc.failed, cs[i]) ELSE acc.failed]
       IN CHOOSE res \in {DrawAll(cs, i + 1, n, st, fail) : n \in {next}} : TRUE

----------------------------------------------------------------------------
\* The textual form of actions (actions.rs, actions/engine_actions.rs,
\* actions/home_action.rs).  A text is a sequence of tokens: a word, a digit,
\* or one punctuation character.  The messages of Error and CompleteInput are
\* token sequences as well.
Ok(a) == [tag |-> "Ok", action |-> a]
Err(text) == [tag |-> "Err", error |-> text]
Panicked == [tag |-> "Panic"]

DigitChars == <<"0", "1", "2", "3", "4", "5", "6", "7", "8", "9">>
IsDigit(c) == \E d \in 1..10 : DigitChars[d] = c
DigitValue(c) == (CHOOSE d \in 1..10 : DigitChars[d] = c) - 1

\* Display of an unsigned integer: its decimal digits
RECURSIVE Digits(_)
Digits(n) == IF n < 10 THEN <<DigitChars[n + 1]>> ELSE Append(Digits(n \div 10), DigitChars[(n % 10) + 1])

\* Debug of a String ({x:?}): quoted, with quotes and backslashes escaped
RECURSIVE EscapeDebug(_)
EscapeDebug(text) ==
  IF text = <<>> THEN <<>>
  ELSE (IF Head(text) \in {"\"", "\\"} THEN <<"\\", Head(text)>> ELSE <<Head(text)>>) \o EscapeDebug(Tail(text))

DebugString(text) == <<"\"">> \o EscapeDebug(text) \o <<"\"">>

\* impl Display for EngineAction
EngineAction_fmt(a) ==
  CASE a[2] = "Resize" -> <<"Resize", "(">> \o Digits(a[3][1]) \o <<",", " ">> \o Digits(a[3][2]) \o <<")">>
    [] a[2] = "Error" -> <<"Error", "(">> \o DebugString(a[3]) \o <<")">>
    [] OTHER -> <<a[2]>>

\* impl Display for HomeAction; {x:?} of a ListNavDirection is the variant's name
HomeAction_fmt(a) ==
  CASE a[2] \in {"Increment", "Decrement"} -> <<a[2], "(">> \o Digits(a[3]) \o <<")">>
    [] a[2] = "CompleteInput" -> <<"CompleteInput", "(">> \o a[3] \o <<")">>
    [] a[2] = "NavigateList" -> <<"NavigateList", ".", a[3]>>
    [] OTHER -> <<a[2]>>

\* impl Display for Action
Action_fmt(a) ==
  IF a[1] = "Engine" THEN <<"Engine", ".">> \o EngineAction_fmt(a)
  ELSE <<"Home", ".">> \o HomeAction_fmt(a)

\* str::starts_with
StartsWith(text, pat) == Len(pat) <= Len(text) /\ SubSeq(text, 1, Len(pat)) = pat

\* str::trim_start_matches(pat), str::trim_end_matches(c), str::trim
RECURSIVE TrimStartMatches(_, _)
TrimStartMatches(text, pat) ==
  IF StartsWith(text, pat) THEN TrimStartMatches(SubSeq(text, Len(pat) + 1, Len(text)), pat) ELSE text

RECURSIVE TrimEndMatches(_, _)
TrimEndMatches(text, c) ==
  IF text # <<>> /\ text[Len(text)] = c THEN TrimEndMatches(SubSeq(text, 1, Len(text) - 1), c) ELSE text

Trim(text) == TrimEndMatches(TrimStartMatches(text, <<" ">>), " ")

\* str::split(separators).collect(): the pieces between separator characters
RECURSIVE SplitOn(_, _, _)
SplitOn(text, seps, piece) ==
  IF text = <<>> THEN <<piece>>
  ELSE IF Head(text) \in seps THEN <<piece>> \o SplitOn(Tail(text), seps, <<>>)
  ELSE SplitOn(Tail(text), seps, Append(piece, Head(text)))

\* data.split(pat).nth(1).unwrap_or_default(): what lies between the first
\* and the second occurrence of pat
RECURSIVE UpTo(_, _)
UpTo(text, pat) ==
  IF text = <<>> \/ StartsWith(text, pat) THEN <<>> ELSE <<Head(text)>> \o UpTo(Tail(text), pat)

RECURSIVE SplitNth1(_, _)
SplitNth1(text, pat) ==
  IF text = <<>> THEN <<>>
  ELSE IF StartsWith(text, pat) THEN UpTo(SubSeq(text, Len(pat) + 1, Len(text)), pat)
  ELSE SplitNth1(Tail(text), pat)

\* str::parse::<u16>
RECURSIVE DecimalValue(_, _)
DecimalValue(text, acc) ==
  IF text = <<>> THEN acc ELSE DecimalValue(Tail(text), acc * 10 + DigitValue(Head(text)))

ParseU16(text) ==
  IF text = <<>> \/ \E i \in 1..Len(text) : ~IsDigit(text[i]) THEN Err("invalid digit")
  ELSE IF DecimalValue(text, 0) > 65535 THEN Err("number too large")
  ELSE [tag |-> "Ok", value |-> DecimalValue(text, 0)]

\* ActionVisitor::visit_str, the Engine family (actions.rs 62-89)
EngineAction_visit(value) ==
  LET substr == SplitNth1(value, <<"Engine", ".">>)
  IN IF Len(substr) = 1 /\ substr[1] \in {"Tick", "Render", "Suspend", "Resume", "Quit", "Refresh", "ToggleShowHelp"}
     THEN Ok(<<"Engine", substr[1], "">>)
     ELSE IF StartsWith(substr, <<"Error", "(">>)
     THEN Ok(<<"Engine", "Error", TrimEndMatches(TrimStartMatches(substr, <<"Error", "(">>), ")")>>)
     ELSE IF StartsWith(substr, <<"Resize", "(">>)
     THEN LET parts == SplitOn(TrimEndMatches(TrimStartMatches(substr, <<"Resize", "(">>), ")"), {","}, <<>>)
          IN IF Len(parts) = 2
             THEN LET width == ParseU16(Trim(parts[1]))
                      height == ParseU16(Trim(parts[2]))
                  IN IF width.tag = "Err" THEN width
                     ELSE IF height.tag = "Err" THEN height
                     ELSE Ok(<<"Engine", "Resize", <<width.value, height.value>>>>)
             ELSE Err("Invalid Resize format")
     ELSE Err("Unknown EngineAction variant")

\* ActionVisitor::visit_str, the Home family (actions.rs 90-113); parts[1] is
\* an index out of bounds when the text holds no parenthesis
HomeAction_visit(value) ==
  LET substr == SplitNth1(value, <<"Home", ".">>)
  IN IF Len(substr) = 1 /\ substr[1] \in {"Help", "ScheduleIncrement", "ScheduleDecrement", "ToggleShowHelp",
                                          "EnterInsert", "EnterNormal"}
     THEN Ok(<<"Home", substr[1], "">>)
     ELSE IF StartsWith(substr, <<"NavigateList">>)
     THEN LET parts == SplitOn(substr, {"(", ")"}, <<>>)
          IN IF Len(parts) < 2 THEN Panicked
             ELSE IF Len(parts[2]) = 1 /\ parts[2][1] \in {"Left", "Right", "Up", "Down"}
             THEN Ok(<<"Home", "NavigateList", parts[2][1]>>)
             ELSE Err("Unexpected list navigation direction in config")
     ELSE Err("Unknown HomeAction variant")

\* impl Deserialize for Action: ActionVisitor::visit_str
Action_deserialize(value) ==
  IF StartsWith(value, <<"Engine", ".">>) THEN EngineAction_visit(value)
  ELSE IF StartsWith(value, <<"Home", ".">>) THEN HomeAction_visit(value)
  ELSE Err("Unknown Action variant")

----------------------------------------------------------------------------
\* Terminal events (tui::Event): Quit, Tick, Render, Resize, Key, and the
\* variants the loop maps to no action ("Other").
Events(keys) ==
  {<<"Quit", "">>, <<"Tick", "">>, <<"Render", "">>, <<"Resize", "">>, <<"Other", "">>}
    \cup {<<"Key", k>> : k \in keys}

\* The lifecycle action an event maps to (app.rs 78-81, 100)
EventAction(e) ==
  CASE e[1] = "Quit" -> <<Quit>>
    [] e[1] = "Tick" -> <<Tick>>
    [] e[1] = "Render" -> <<Render>>
    [] e[1] = "Resize" -> <<Resize(80, 24)>>
    [] OTHER -> <<>>

\* Mutant: the drain stops at an action a component's update returned.
TryRecvFailsOnFollowUp(q) == IF q = <<>> THEN TRUE ELSE q[1].src = "update"

\* action_rx.try_recv() returns Err exactly when no entry is queued (app.rs 109)
TryRecvFails(q) == q = <<>>

NoMsg == Msg(<<"None", "", "">>, "none")
NoCodec == [stage |-> "unused"]
NoFanout == [handled |-> <<>>, drawn |-> <<>>, draw_failed |-> <<>>, updated |-> <<>>, returned |-> <<>>, err |-> FALSE]

InitWith(rosters, configs) ==
  /\ pc = "new"
  /\ tui = "closed"
  /\ action_rx = <<>>
  /\ should_quit = FALSE
  /\ should_suspend = FALSE
  /\ mode = "MainMenu"
  /\ last_tick_key_events = <<>>
  /\ components \in rosters
  /\ config \in configs
  /\ main_menu = [item_index |-> 0]
  /\ help_screen = [show_help |-> FALSE]
  /\ mode_switcher = [show_menu |-> FALSE, current_index |-> 0]
  /\ home = [counter |-> 0, mode |-> "Normal", input |-> <<>>, text |-> <<>>,
             todo_op_index |-> 0, action_tx |-> FALSE]
  /\ tasks = [t \in TaskKinds \X TaskSteps |-> 0]
  /\ nsched = 0
  /\ fed = <<>>
  /\ emitted = <<>>
  /\ last = "new"
  /\ trail = NoMsg
  /\ drained = 0
  /\ nextern = 0
  /\ setup_calls = <<>>
  /\ tui_calls = <<>>
  /\ task_log = <<>>
  /\ fanout = NoFanout
  /\ late = 0

\* The setup calls of run(), in the order the three loops make them (app.rs 63-73)
SetupPhases == <<"register_action_handler", "register_config_handler", "init">>

\* Mutant: one loop makes the three calls on a component before it goes on to the next.
RunSetupPerComponent(cs) ==
  [k \in 1..(3 * Len(cs)) |-> <<SetupPhases[((k - 1) % 3) + 1], cs[((k - 1) \div 3) + 1]>>]

RunSetup(cs) ==
  [k \in 1..(3 * Len(cs)) |-> <<SetupPhases[((k - 1) \div Len(cs)) + 1], cs[((k - 1) % Len(cs)) + 1]>>]

\* App::new, with the rosters and the configurations of the runs considered
Init ==
  /\ InitWith({RosterNew}, ConfigsLoop) \/ InitWith({RosterHome}, ConfigsHome)
  /\ codec = NoCodec

\* run(), up to the loop (app.rs 57-73): open the bus, enter the terminal,
\* hand every component the sender and the config, init.
Startup ==
  /\ pc = "new"
  /\ pc' = "await"
  /\ tui' = "entered"
  /\ home' = [home EXCEPT !.action_tx = Contains(components, "Home")]
  /\ last' = "startup"
  /\ tui_calls' = <<"new", "enter">>
  /\ setup_calls' = RunSetup(components)
  /\ UNCHANGED <<action_rx, should_quit, should_suspend, mode, last_tick_key_events, components,
                 config, main_menu, help_screen, mode_switcher, tasks, nsched, fed, emitted, trail, drained, nextern, task_log, fanout, late, codec>>

\* One terminal event (app.rs 76-107): map it to an action, resolve a key
\* against the active mode's keymap, then offer the raw event to every component.
\* window: how many keys a run presses between two processed Ticks.
HandleEventWithin(e, window) ==
  /\ pc = "await"
  /\ LET isKey == e[1] = "Key"
         r == IF isKey
              THEN ResolveKey(config.keybindings, mode, last_tick_key_events, e[2])
              ELSE [buf |-> last_tick_key_events, out |-> EventAction(e)]
         h == HandleEventsAll(components, 1, [st |-> State, out |-> <<>>, handled |-> <<>>], e)
         sched == Len(SelectSeq(r.out, LAMBDA a : a[2] \in {"ScheduleIncrement", "ScheduleDecrement"}))
     IN /\ isKey => Len(fed) < window
        /\ nsched + sched <= MaxTasks
        /\ Len(h.st.home.input) <= MaxInput
        /\ \A i \in 1..Len(h.out) : h.out[i].act[2] = "CompleteInput" => Len(home.text) < MaxText
        /\ last_tick_key_events' = r.buf
        /\ action_rx' = action_rx \o Tag(r.out, "event") \o h.out
        /\ home' = h.st.home
        /\ nsched' = nsched + sched
        /\ fed' = IF isKey THEN Append(fed, <<e[2], mode>>) ELSE fed
        /\ emitted' = IF isKey THEN r.out ELSE emitted
        /\ fanout' = [NoFanout EXCEPT !.handled = h.handled]
  /\ last' = IF e[1] = "Key" THEN "key" ELSE "event"
  /\ pc' = "drain"
  /\ drained' = 0
  /\ tui_calls' = <<>>
  /\ UNCHANGED <<tui, should_quit, should_suspend, mode, components, config,
                 main_menu, help_screen, mode_switcher, tasks, trail, nextern, setup_calls, task_log, late, codec>>

HandleEvent(e) == HandleEventWithin(e, MaxKeys)

\* tui.next() yields None: the loop goes on to drain the bus (app.rs 76)
NoEvent ==
  /\ pc = "await"
  /\ pc' = "drain"
  /\ last' = "event"
  /\ drained' = 0
  /\ tui_calls' = <<>>
  /\ fanout' = NoFanout
  /\ UNCHANGED <<tui, action_rx, should_quit, should_suspend, mode, last_tick_key_events, components,
                 config, main_menu, help_screen, mode_switcher, home, tasks, nsched, fed, emitted, trail, nextern, setup_calls, task_log, late, codec>>

\* Mutant: only Render redraws.
RedrawsOnRenderOnly(a) == a = Render

\* The arms of the lifecycle match that call tui.draw (app.rs 122-142)
Redraws(a) == a[1] = "Engine" /\ a[2] \in {"Resize", "Render"}

\* One pass of the body of `while let Ok(action) = action_rx.try_recv()` (app.rs 109-152).
\* update_fails / draw_fails: whether the update / draw of a failing
\* component returns Err in this pass.
Dispatch(update_fails, draw_fails) ==
  /\ pc = "drain"
  /\ ~TryRecvFails(action_rx)
  /\ LET m == Head(action_rx)
         a == m.act
         nodraw == [out |-> <<>>, drawn |-> <<>>, failed |-> <<>>]
         redraw == IF Redraws(a)
                   THEN DrawAll(components, 1, nodraw, State, draw_fails) ELSE nodraw
         u == UpdateAll(components, 1,
                        [st |-> State, out |-> <<>>, spawn |-> <<>>, updated |-> <<>>, err |-> FALSE],
                        a, update_fails)
     IN /\ last_tick_key_events' = IF a = Tick THEN TickDrain(last_tick_key_events) ELSE last_tick_key_events
        /\ mode' = IF a[1] = "Engine" /\ a[2] = "ChangeMode" THEN a[3] ELSE mode
        /\ should_quit' = IF a = Quit THEN TRUE ELSE should_quit
        /\ should_suspend' = CASE a = Suspend -> TRUE [] a = Resume -> FALSE [] OTHER -> should_suspend
        /\ action_rx' = Tail(action_rx) \o redraw.out \o u.out
        /\ main_menu' = u.st.main_menu
        /\ help_screen' = u.st.help_screen
        /\ mode_switcher' = u.st.mode_switcher
        /\ home' = u.st.home
        /\ tasks' = [t \in TaskKinds \X TaskSteps |->
                       tasks[t] + IF t[2] = 0 /\ Contains(u.spawn, t[1]) THEN 1 ELSE 0]
        /\ fed' = IF a = Tick THEN <<>> ELSE fed
        /\ last' = "drain"
        /\ trail' = m
        /\ drained' = IF a = Tick THEN Len(last_tick_key_events) ELSE 0
        /\ task_log' = IF m.src = "task" THEN Append(task_log, a) ELSE task_log
        /\ fanout' = [handled |-> <<>>, drawn |-> redraw.drawn, draw_failed |-> redraw.failed, updated |-> u.updated,
                      returned |-> [k \in 1..Len(u.out) |-> u.out[k].act], err |-> u.err]
        /\ pc' = IF u.err THEN "failed" ELSE "drain"
        /\ late' = IF m.src = "task" /\ Len(FromSrc(action_rx, "task")) = late THEN late - 1 ELSE late
  /\ UNCHANGED <<tui, components, config, nsched, emitted, nextern, setup_calls, tui_calls, codec>>

\* The pass with the repository's components: no update and no draw returns Err.
DrainStep == Dispatch(FALSE, FALSE)

\* Mutant: the while loop also ends as soon as a Suspend has been applied.
DrainExitOnSuspend ==
  /\ pc = "drain"
  /\ (TryRecvFails(action_rx) \/ should_suspend)
  /\ pc' = "post"
  /\ last' = "exit"
  /\ drained' = 0
  /\ UNCHANGED <<tui, action_rx, should_quit, should_suspend, mode, last_tick_key_events, components,
                 config, main_menu, help_screen, mode_switcher, home, tasks, nsched, fed, emitted, trail, nextern, setup_calls, tui_calls, task_log, fanout, late, codec>>

\* try_recv() finds the bus empty: the while loop ends (app.rs 109)
DrainExit ==
  /\ pc = "drain"
  /\ TryRecvFails(action_rx)
  /\ pc' = "post"
  /\ last' = "exit"
  /\ drained' = 0
  /\ UNCHANGED <<tui, action_rx, should_quit, should_suspend, mode, last_tick_key_events, components,
                 config, main_menu, help_screen, mode_switcher, home, tasks, nsched, fed, emitted, trail, nextern, setup_calls, tui_calls, task_log, fanout, late, codec>>

\* Mutant: the suspend branch sends no Resume.
PostSuspendNoResume ==
  /\ pc = "post"
  /\ should_suspend
  /\ tui' = "entered"
  /\ pc' = "await"
  /\ last' = "suspend"
  /\ tui_calls' = <<"suspend", "new", "enter">>
  /\ UNCHANGED <<action_rx, should_quit, should_suspend, mode, last_tick_key_events, components, config,
                 main_menu, help_screen, mode_switcher, home, tasks, nsched, fed, emitted, trail, drained, nextern, setup_calls, task_log, fanout, late, codec>>

\* Mutant: the suspend branch sends Resume twice.
PostSuspendTwoResumes ==
  /\ pc = "post"
  /\ should_suspend
  /\ action_rx' = action_rx \o <<Msg(Resume, "resume"), Msg(Resume, "resume")>>
  /\ tui' = "entered"
  /\ pc' = "await"
  /\ last' = "suspend"
  /\ tui_calls' = <<"suspend", "new", "enter">>
  /\ UNCHANGED <<should_quit, should_suspend, mode, last_tick_key_events, components, config,
                 main_menu, help_screen, mode_switcher, home, tasks, nsched, fed, emitted, trail, drained, nextern, setup_calls, task_log, fanout, late, codec>>

\* if self.should_suspend (app.rs 153-157): release the terminal, send Resume,
\* open and enter a fresh terminal
PostSuspend ==
  /\ pc = "post"
  /\ should_suspend
  /\ action_rx' = Append(action_rx, Msg(Resume, "resume"))
  /\ tui' = "entered"
  /\ pc' = "await"
  /\ last' = "suspend"
  /\ tui_calls' = <<"suspend", "new", "enter">>
  /\ UNCHANGED <<should_quit, should_suspend, mode, last_tick_key_events, components, config,
                 main_menu, help_screen, mode_switcher, home, tasks, nsched, fed, emitted, trail, drained, nextern, setup_calls, task_log, fanout, late, codec>>

\* Mutant: the quit branch goes round the loop once more.
PostQuitKeepsRunning ==
  /\ pc = "post"
  /\ ~should_suspend
  /\ should_quit
  /\ pc' = "await"
  /\ last' = "quit"
  /\ tui_calls' = <<"stop">>
  /\ UNCHANGED <<tui, action_rx, should_quit, should_suspend, mode, last_tick_key_events, components, config,
                 main_menu, help_screen, mode_switcher, home, tasks, nsched, fed, emitted, trail, drained,
                 nextern, setup_calls, task_log, fanout, late, codec>>

\* else if self.should_quit (app.rs 158-164): stop, leave the loop, exit the
\* terminal and return
PostQuit ==
  /\ pc = "post"
  /\ ~should_suspend
  /\ should_quit
  /\ tui' = "exited"
  /\ pc' = "done"
  /\ last' = "quit"
  /\ tui_calls' = <<"stop", "exit">>
  /\ UNCHANGED <<action_rx, should_quit, should_suspend, mode, last_tick_key_events, components, config,
                 main_menu, help_screen, mode_switcher, home, tasks, nsched, fed, emitted, trail, drained, nextern, setup_calls, task_log, fanout, late, codec>>

\* neither flag is set: next iteration (app.rs 162, 75)
PostContinue ==
  /\ pc = "post"
  /\ ~should_suspend
  /\ ~should_quit
  /\ pc' = "await"
  /\ last' = "continue"
  /\ UNCHANGED <<tui, action_rx, should_quit, should_suspend, mode, last_tick_key_events, components,
                 config, main_menu, help_screen, mode_switcher, home, tasks, nsched, fed, emitted, trail, drained, nextern, setup_calls, tui_calls, task_log, fanout, late, codec>>

\* A background task sends its next action (home.rs 75-79, 84-88)
TaskSend(kind, done) ==
  /\ tasks[<<kind, done>>] > 0
  /\ pc \notin {"done", "failed"}
  /\ action_rx' = Append(action_rx, Msg(TaskMessage(kind, done), "task"))
  /\ tasks' = [t \in TaskKinds \X TaskSteps |->
                 CASE t = <<kind, done>> -> tasks[t] - 1
                   [] t = <<kind, done + 1>> -> tasks[t] + 1
                   [] OTHER -> tasks[t]]
  /\ late' = IF should_quit THEN late + 1 ELSE late
  /\ UNCHANGED <<pc, tui, should_quit, should_suspend, mode, last_tick_key_events, components, config,
                 main_menu, help_screen, mode_switcher, home, nsched, fed, emitted, last, trail, drained, nextern, setup_calls, tui_calls, task_log, fanout, codec>>

\* run() has returned (Ok or Err) and dropped the receiver: tx.send(..).unwrap() panics
\* and the task ends (home.rs 76-78, 85-87)
TaskPanic(kind, done) ==
  /\ tasks[<<kind, done>>] > 0
  /\ pc \in {"done", "failed"}
  /\ tasks' = [tasks EXCEPT ![<<kind, done>>] = @ - 1]
  /\ UNCHANGED <<pc, tui, action_rx, should_quit, should_suspend, mode, last_tick_key_events, components,
                 config, main_menu, help_screen, mode_switcher, home, nsched, fed, emitted, last, trail, drained, nextern, setup_calls, tui_calls, task_log, fanout, late, codec>>

Next ==
  \/ Startup
  \/ \E e \in Events(config.keys) : HandleEvent(e)
  \/ NoEvent
  \/ DrainStep
  \/ DrainExit
  \/ PostSuspend
  \/ PostQuit
  \/ PostContinue
  \/ \E kind \in TaskKinds, done \in TaskSteps : TaskSend(kind, done)
  \/ \E kind \in TaskKinds, done \in TaskSteps : TaskPanic(kind, done)

Spec == Init /\ [][Next]_vars

\* The bus as an open interface: run() hands a clone of the sender to every
\* component (app.rs 63-65), and whoever holds one may send any action at any
\* time.  SenderSend lets such a holder send a lifecycle action on its own.
SenderActions == {Quit, Suspend}

SenderSend(a) ==
  /\ pc \notin {"new", "done", "failed"}
  /\ nextern < MaxExternal
  /\ nextern' = nextern + 1
  /\ action_rx' = Append(action_rx, Msg(a, "sender"))
  /\ UNCHANGED <<pc, tui, should_quit, should_suspend, mode, last_tick_key_events, components, config,
                 main_menu, help_screen, mode_switcher, home, tasks, nsched, fed, emitted, last, trail, drained, setup_calls, tui_calls, task_log, fanout, late, codec>>

NextOpen ==
  \/ Next
  \/ \E a \in SenderActions : SenderSend(a)

\* The keys play no part in what the open bus adds: one configuration suffices.
InitOpen == InitWith(Rosters, {ConfigSchedule}) /\ codec = NoCodec

SpecOpen == InitOpen /\ [][NextOpen]_vars

\* Runs about the scheduled tasks alone.  Home is registered, no key is bound
\* to Suspend, and the terminal events are those that bear on the tasks and
\* on the keys: the keys, the Tick that clears the key buffer, and Quit.
TaskEvents(keys) == {<<"Quit", "">>, <<"Tick", "">>} \cup {<<"Key", k>> : k \in keys}

NextEvent == \E e \in TaskEvents(config.keys) : HandleEvent(e)

NextTasks ==
  \/ Startup
  \/ NextEvent
  \/ DrainStep
  \/ DrainExit
  \/ PostQuit
  \/ PostContinue
  \/ \E kind \in TaskKinds, done \in TaskSteps : TaskSend(kind, done)
  \/ \E kind \in TaskKinds, done \in TaskSteps : TaskPanic(kind, done)

\* The scheduling the program runs with: the loop goes on from one statement
\* to the next, tui.next() yields an event sooner or later (at the latest the
\* next Tick of the timer), and the runtime polls every spawned task again.
\* The loop is one sequential process, and so is every task.
LoopStep == Startup \/ NextEvent \/ DrainStep \/ DrainExit \/ PostQuit \/ PostContinue
TaskStep == \E kind \in TaskKinds, done \in TaskSteps : TaskSend(kind, done)

Fairness == WF_vars(LoopStep) /\ WF_vars(TaskStep)

InitFair == InitWith({RosterHome}, {ConfigScheduleIncrement, ConfigScheduleDecrement}) /\ codec = NoCodec

SpecFair == InitFair /\ [][NextTasks]_vars /\ Fairness

\* Actions that set Home's mode, enqueued from a key binding next to those of
\* a scheduled task or next to those of Home's key handler.
InitInterleaved == InitWith({RosterHome}, {ConfigScheduleNormal, ConfigEnterBound}) /\ codec = NoCodec

SpecInterleaved == InitInterleaved /\ [][NextTasks]_vars

\* Runs about the mode selection: the components of App::new, and keys that
\* move the selection either way in either mode.
InitSwitcher == InitWith({RosterNew}, {ConfigNavigate}) /\ codec = NoCodec

NextSwitcher ==
  \/ Startup
  \/ \E e \in Events(config.keys) : HandleEvent(e)
  \/ NoEvent
  \/ DrainStep
  \/ DrainExit
  \/ PostQuit
  \/ PostContinue

SpecSwitcher == InitSwitcher /\ [][NextSwitcher]_vars

\* Runs about keys that stay in the buffer across a change of mode: the
\* components of App::new, and a window one key longer, so that a key can be
\* pressed before the key that switches the mode and another after it.
InitCarry == InitWith({RosterNew}, {ConfigCarry}) /\ codec = NoCodec

NextCarry ==
  \/ Startup
  \/ \E e \in TaskEvents(config.keys) : HandleEventWithin(e, MaxKeys + 1)
  \/ DrainStep
  \/ DrainExit
  \/ PostQuit
  \/ PostContinue

SpecCarry == InitCarry /\ [][NextCarry]_vars

\* Components that fail.  Component::update and Component::draw return a
\* Result, and the loop has a path for Err (app.rs 127-129, 137-139, 148).
\* These runs register, between the repository's components, one whose
\* update may return Err, or one whose draw may.
RosterFailingUpdate == <<"MainMenu", "FailingUpdate", "HelpScreen", "ModeSwitcher">>
RosterFailingDraw == <<"MainMenu", "FailingDraw", "HelpScreen", "ModeSwitcher">>
FailingRosters == {RosterFailingUpdate, RosterFailingDraw}

InitFailing == InitWith(FailingRosters, {ConfigChords, ConfigSuspend}) /\ codec = NoCodec

\* No Home is registered in these runs, so no background task is ever spawned.
NextFailing ==
  \/ Startup
  \/ \E e \in Events(config.keys) : HandleEvent(e)
  \/ NoEvent
  \/ \E update_fails, draw_fails \in BOOLEAN : Dispatch(update_fails, draw_fails)
  \/ DrainExit
  \/ PostSuspend
  \/ PostQuit
  \/ PostContinue

SpecFailing == InitFailing /\ [][NextFailing]_vars

\* The textual form on its own: an action is formatted by Display, and the
\* text is handed to the deserializer.
CodecNumbers == (0..MaxDim) \cup {10, 255, 65535}
CodecTokens == {"x", ")", "\"", "Engine", "."}
CodecMessages == UNION {[1..n -> CodecTokens] : n \in 0..MaxMsg}
CodecActions ==
  {<<"Engine", v, "">> : v \in {"Tick", "Render", "Suspend", "Resume", "Quit", "Refresh", "ToggleShowHelp"}}
    \cup {Resize(w, h) : w \in CodecNumbers, h \in CodecNumbers}
    \cup {EngineError(text) : text \in CodecMessages}
    \cup {<<"Home", v, "">> : v \in {"Help", "ToggleShowHelp", "ScheduleIncrement", "ScheduleDecrement",
                                     "EnterNormal", "EnterInsert", "EnterProcessing", "ExitProcessing", "Update"}}
    \cup {<<"Home", v, n>> : v \in {"Increment", "Decrement"}, n \in CodecNumbers}
    \cup {CompleteInput(text) : text \in CodecMessages}
    \cup {NavigateList(dir) : dir \in {"Left", "Right", "Up", "Down"}}

InitCodec ==
  /\ InitWith({RosterNew}, {ConfigChords})
  /\ codec \in {[stage |-> "action", action |-> a, text |-> <<>>, decoded |-> Err("")] : a \in CodecActions}

\* action.to_string()
Encode ==
  /\ codec.stage = "action"
  /\ codec' = [codec EXCEPT !.stage = "text", !.text = Action_fmt(codec.action)]
  /\ UNCHANGED <<pc, tui, action_rx, should_quit, should_suspend, mode, last_tick_key_events, components,
                 config, main_menu, help_screen, mode_switcher, home, tasks, nsched, fed, emitted, last,
                 trail, drained, nextern, setup_calls, tui_calls, task_log, fanout, late>>

\* Action::deserialize of that text
Decode ==
  /\ codec.stage = "text"
  /\ codec' = [codec EXCEPT !.stage = "decoded", !.decoded = Action_deserialize(codec.text)]
  /\ UNCHANGED <<pc, tui, action_rx, should_quit, should_suspend, mode, last_tick_key_events, components,
                 config, main_menu, help_screen, mode_switcher, home, tasks, nsched, fed, emitted, last,
                 trail, drained, nextern, setup_calls, tui_calls, task_log, fanout, late>>

NextCodec ==
  \/ Encode
  \/ Decode

SpecCodec == InitCodec /\ [][NextCodec]_vars

----------------------------------------------------------------------------
\* Vocabulary of the properties
Keymap(m) == config.keybindings[m]
FedKeys == [i \in 1..Len(fed) |-> fed[i][1]]
FedIn(m) == \A i \in 1..Len(fed) : fed[i][2] = m
SingleBound(m, k) == <<k>> \in DOMAIN Keymap(m)
IsPrefix(p, q) == Len(p) <= Len(q) /\ \A i \in 1..Len(p) : p[i] = q[i]
\* a chord none of whose keys is bound on its own, or a single key
Unshadowed(m, s) == Len(s) = 1 \/ \A i \in 1..Len(s) : ~SingleBound(m, s[i])
\* a non-empty buffer that starts no configured sequence of mode m
Dead(b, m) == b # <<>> /\ ~\E s \in DOMAIN Keymap(m) : IsPrefix(b, s)
\* the step that handles a key event / that processes a Tick
KeyStep == pc = "await" /\ pc' = "drain" /\ last' = "key"
TickStep == pc = "drain" /\ action_rx # <<>> /\ Head(action_rx).act = Tick
ChordGG == <<"g", "g">>

----------------------------------------------------------------------------
\* C1 (as stated): for every configured (mode, sequence) -> action, once
\* exactly the keys of the sequence have been pressed in that mode since the
\* buffer was last empty (no Tick in between), the resolver has enqueued that
\* action on the last key.
C1_EverySequenceEmits ==
  \A m \in Modes : \A s \in DOMAIN Keymap(m) :
    (FedKeys = s /\ FedIn(m)) =>
      /\ emitted = <<Keymap(m)[s]>>
      /\ last = "key" => Contains(action_rx, Msg(Keymap(m)[s], "event"))

\* C1 (amended): the same, for the sequences that are a single key or a chord
\* none of whose keys is bound on its own in that mode.
C1_UnshadowedSequenceEmits ==
  \A m \in Modes : \A s \in DOMAIN Keymap(m) :
    (Unshadowed(m, s) /\ FedKeys = s /\ FedIn(m)) =>
      /\ emitted = <<Keymap(m)[s]>>
      /\ last = "key" => Contains(action_rx, Msg(Keymap(m)[s], "event"))

C1_Witness ==
  \E m \in Modes : \E s \in DOMAIN Keymap(m) :
    /\ Len(s) >= 2 /\ Unshadowed(m, s)
    /\ FedKeys = s /\ FedIn(m) /\ last = "key"
    /\ Contains(action_rx, Msg(Keymap(m)[s], "event"))

\* C2 (as stated): right after a key press that made the resolver emit an
\* action, the pending key buffer is empty.
C2_EmitClearsBuffer ==
  (last = "key" /\ emitted # <<>>) => last_tick_key_events = <<>>

\* C2 (amended): a key press that makes the resolver emit an action does not
\* empty the buffer: after a single-key binding the buffer is what it was,
\* after a completed chord it holds the keys of that chord.
C2_EmitKeepsBuffer ==
  [][ (KeyStep /\ emitted' # <<>>) =>
        LET k == Last(fed')[1]
        IN IF SingleBound(mode, k)
           THEN last_tick_key_events' = last_tick_key_events
           ELSE /\ last_tick_key_events' = Append(last_tick_key_events, k)
                /\ last_tick_key_events' \in DOMAIN Keymap(mode)
                /\ emitted' = <<Keymap(mode)[last_tick_key_events']>> ]_vars

C2_Witness ==
  /\ last = "key" /\ emitted # <<>>
  /\ Len(last_tick_key_events) >= 2
  /\ last_tick_key_events \in DOMAIN Keymap(mode)

\* C3: right after a Tick action is processed the pending key buffer is
\* empty, whatever it held; so the buffer only ever holds keys pressed since
\* the last processed Tick.
C3_TickClearsBuffer ==
  /\ (last = "drain" /\ trail.act = Tick) => last_tick_key_events = <<>>
  /\ Len(last_tick_key_events) <= Len(fed)
  /\ \A i \in 1..Len(last_tick_key_events) : Contains(FedKeys, last_tick_key_events[i])

C3_Witness ==
  last = "drain" /\ trail.act = Tick /\ drained > 0 /\ last_tick_key_events = <<>>

\* C4 (as stated): with [g, g] -> EnterNormal configured in the active mode,
\* g pressed once from an empty buffer enqueues nothing and leaves [g]
\* pending; g pressed again enqueues EnterNormal.
C4_ChordEmitsOnSecondKey ==
  \A m \in Modes :
    (ChordGG \in DOMAIN Keymap(m) /\ Keymap(m)[ChordGG] = HomeAction("EnterNormal")) =>
      /\ fed = << <<"g", m>> >> => (emitted = <<>> /\ last_tick_key_events = <<"g">>)
      /\ fed = << <<"g", m>>, <<"g", m>> >> => emitted = <<HomeAction("EnterNormal")>>

\* C4 (amended): the same, provided g has no single-key binding in that mode.
C4_UnshadowedChordEmitsOnSecondKey ==
  \A m \in Modes :
    (ChordGG \in DOMAIN Keymap(m) /\ Keymap(m)[ChordGG] = HomeAction("EnterNormal")
       /\ ~SingleBound(m, "g")) =>
      /\ fed = << <<"g", m>> >> => (emitted = <<>> /\ last_tick_key_events = <<"g">>)
      /\ fed = << <<"g", m>>, <<"g", m>> >> => emitted = <<HomeAction("EnterNormal")>>

C4_Witness ==
  \E m \in Modes :
    /\ ChordGG \in DOMAIN Keymap(m) /\ ~SingleBound(m, "g")
    /\ fed = << <<"g", m>>, <<"g", m>> >>
    /\ emitted = <<HomeAction("EnterNormal")>>
    /\ last = "key"

\* C5 (as stated): a key press never leaves the buffer holding a sequence
\* that starts no configured sequence of the active mode.
C5_BufferAlwaysAPrefix ==
  last = "key" => ~Dead(last_tick_key_events, mode)

\* C5 (amended): the resolver discards nothing.  A key press that leaves the
\* buffer starting no configured sequence keeps every key the buffer held
\* (followed by the new key, unless that key is bound on its own) and emits
\* nothing from a dead chord; keys leave the buffer only when a Tick is
\* processed.
C5_DeadBufferIsKept ==
  [][ /\ (KeyStep /\ Dead(last_tick_key_events', mode)) =>
           LET k == Last(fed')[1]
           IN IF SingleBound(mode, k)
              THEN last_tick_key_events' = last_tick_key_events
              ELSE last_tick_key_events' = Append(last_tick_key_events, k) /\ emitted' = <<>>
      /\ ~IsPrefix(last_tick_key_events, last_tick_key_events') => TickStep ]_vars

C5_Witness ==
  last = "key" /\ Len(last_tick_key_events) >= 2 /\ Dead(last_tick_key_events, mode)

\* C6: a key event makes the resolver enqueue at most one action, and exactly
\* the bound action, once, when the key alone is a configured sequence of the
\* active mode.
C6_AtMostOneAction ==
  last = "key" =>
    LET ev == FromSrc(action_rx, "event")
        k == Last(fed)[1]
        m == Last(fed)[2]
    IN /\ Len(ev) <= 1
       /\ ev = Tag(emitted, "event")
       /\ SingleBound(m, k) => ev = <<Msg(Keymap(m)[<<k>>], "event")>>

C6_Witness ==
  /\ last = "key"
  /\ SingleBound(Last(fed)[2], Last(fed)[1])
  /\ Len(FromSrc(action_rx, "event")) = 1

\* C7: an action returned by a component's update is dequeued and applied to
\* the loop state within the same drain pass: none is on the bus when the
\* pass has ended, and a returned ChangeMode has set the active mode.
C7_FollowUpsDrained ==
  /\ pc # "drain" => FromSrc(action_rx, "update") = <<>>
  /\ (last = "drain" /\ trail.src = "update" /\ trail.act[2] = "ChangeMode") => mode = trail.act[3]

C7_Witness ==
  last = "drain" /\ trail.src = "update" /\ trail.act[2] = "ChangeMode" /\ mode = trail.act[3]

\* C8 (as stated): when the loop awaits the next terminal event, nothing the
\* loop or a component enqueued is left on the bus (only actions of
\* background tasks may be).
C8_NothingLeftAcrossWait ==
  pc = "await" => \A i \in 1..Len(action_rx) : action_rx[i].src = "task"

\* C8 (amended): ... except the Resume the loop sends after a suspend: it is
\* sent after the drain pass has ended, so one Resume (and nothing else of the
\* loop or the components) is on the bus across the wait that follows a suspend.
C8_OnlyResumeLeftAcrossWait ==
  /\ pc = "post" => \A i \in 1..Len(action_rx) : action_rx[i].src = "task"
  /\ pc = "await" =>
       /\ \A i \in 1..Len(action_rx) : action_rx[i].src \in {"task", "resume"}
       /\ Len(FromSrc(action_rx, "resume")) <= 1
       /\ FromSrc(action_rx, "resume") # <<>> => (last = "suspend" /\ should_suspend)

C8_Witness ==
  pc = "await" /\ FromSrc(action_rx, "resume") = <<Msg(Resume, "resume")>>

\* C9: once a Quit has been dequeued the loop awaits no further terminal
\* event, whatever else the bus held in that drain pass.
C9_QuitAwaitsNoEvent ==
  should_quit => pc # "await"

\* C10 (as stated): the action processed right after a Suspend is the Resume
\* the loop itself emits.
C10_ResumeIsNextAfterSuspend ==
  [][ (DrainStep /\ trail.act = Suspend) => Head(action_rx) = Msg(Resume, "resume") ]_vars

\* C10 (amended): the loop emits the Resume once the drain pass of the Suspend
\* has ended, and processes it before any action derived from a later
\* terminal event; actions queued behind the Suspend (returned by raw-event
\* handlers, sent by background tasks) are processed in between.
C10_ResumeBeforeNextEvent ==
  /\ (pc = "drain" /\ action_rx # <<>> /\ Head(action_rx).src = "event") => ~should_suspend
  /\ (pc = "await" /\ should_suspend) => Contains(action_rx, Msg(Resume, "resume"))

C10_Witness ==
  last = "drain" /\ should_suspend /\ trail.act # Suspend

\* C11 (as stated): once the loop has gone through a suspension and awaits
\* the next terminal event on the re-acquired terminal, should_suspend is
\* false.
C11_RunningOnceReacquired ==
  (pc = "await" /\ last = "suspend") => ~should_suspend

\* C11 (amended): a suspension releases the terminal once, sends one Resume
\* and opens and enters one fresh terminal; should_suspend is still true when
\* the next terminal event is mapped to an action, and becomes false when the
\* Resume is processed in the drain pass that follows.
C11_RunningOnceResumeProcessed ==
  [][ /\ (pc = "post" /\ pc' # "post" /\ should_suspend) =>
           /\ tui_calls' = <<"suspend", "new", "enter">>
           /\ tui' = "entered"
           /\ action_rx' = Append(action_rx, Msg(Resume, "resume"))
           /\ should_suspend'
           /\ pc' = "await"
      /\ (pc = "await" /\ pc' = "drain" /\ last = "suspend") =>
           /\ should_suspend'
           /\ Len(FromSrc(action_rx', "resume")) = 1
      /\ (pc = "drain" /\ action_rx # <<>> /\ Head(action_rx).act = Resume /\ action_rx' # action_rx) =>
           ~should_suspend'
      /\ (pc = "post" /\ pc' # "post" /\ ~should_suspend) => ~Contains(tui_calls', "suspend") ]_vars

C11_Witness ==
  /\ last = "drain" /\ trail = Msg(Resume, "resume")
  /\ ~should_suspend /\ tui = "entered"

\* C12: dispatching a Suspend, going through the suspension, and dispatching
\* the Resume each leave the private state of every component (Home,
\* HelpScreen, ModeSwitcher, MainMenu) and the loop's active mode as they were.
C12_SuspendResumeKeepState ==
  [][ /\ (DrainStep /\ Head(action_rx).act \in {Suspend, Resume}) =>
           (State' = State /\ mode' = mode /\ Len(action_rx') = Len(action_rx) - 1)
      /\ (pc = "post" /\ should_suspend) => (State' = State /\ mode' = mode) ]_vars

C12_Witness ==
  /\ last = "drain" /\ trail = Msg(Resume, "resume")
  /\ home.mode = "Insert" /\ home.input # <<>>

\* C13: processing ChangeMode(m) sets the active mode to m in that very step,
\* so before any later action of the pass; nothing else changes the mode; and
\* a key event is resolved against the table of the mode then active: what
\* the resolver emits is bound in that table, to the key alone or to the
\* pending keys followed by it.
C13_ModeSwitchTakesEffect ==
  [][ /\ (DrainStep /\ Head(action_rx).act[2] = "ChangeMode") => mode' = Head(action_rx).act[3]
      /\ mode' # mode => (DrainStep /\ Head(action_rx).act[2] = "ChangeMode")
      /\ KeyStep =>
           LET k == Last(fed')[1]
           IN /\ SingleBound(mode, k) => emitted' = <<Keymap(mode)[<<k>>]>>
              /\ emitted' # <<>> =>
                   \E s \in {<<k>>, Append(last_tick_key_events, k)} :
                     s \in DOMAIN Keymap(mode) /\ emitted' = <<Keymap(mode)[s]>> ]_vars

C13_Witness ==
  /\ last = "key" /\ mode = "Home"
  /\ SingleBound("Home", Last(fed)[1]) /\ SingleBound("MainMenu", Last(fed)[1])
  /\ emitted = <<Keymap("Home")[<<Last(fed)[1]>>]>>
  /\ emitted # <<Keymap("MainMenu")[<<Last(fed)[1]>>]>>

\* C14: the bus hands a producer's actions over in the order the producer
\* sent them.  For the background tasks, whatever else is sent in between:
\* in the sequence of task actions dequeued so far followed by those still
\* queued, every counter action (Increment, Decrement) comes after the
\* EnterProcessing of its task and every ExitProcessing after the counter
\* action of its task; a task that has sent d actions has put d on that sequence.
TaskSeq == task_log \o [i \in 1..Len(FromSrc(action_rx, "task")) |-> FromSrc(action_rx, "task")[i].act]
CountIn(q, vs) == Len(SelectSeq(q, LAMBDA a : a[2] \in vs))

C14_ProducerOrderKept ==
  /\ \A n \in 0..Len(TaskSeq) :
       LET pre == SubSeq(TaskSeq, 1, n)
       IN /\ CountIn(pre, {"Increment", "Decrement"}) <= CountIn(pre, {"EnterProcessing"})
          /\ CountIn(pre, {"ExitProcessing"}) <= CountIn(pre, {"Increment", "Decrement"})
  /\ pc # "done" =>
       /\ CountIn(TaskSeq, {"EnterProcessing"}) - CountIn(TaskSeq, {"Increment", "Decrement"})
            = tasks[<<"Increment", 1>>] + tasks[<<"Decrement", 1>>]
       /\ CountIn(TaskSeq, {"Increment", "Decrement"}) - CountIn(TaskSeq, {"ExitProcessing"})
            = tasks[<<"Increment", 2>>] + tasks[<<"Decrement", 2>>]
       /\ \A kind \in TaskKinds : CountIn(TaskSeq, {kind}) >= tasks[<<kind, 2>>]

C14_Witness ==
  /\ Len(task_log) = 2
  /\ Len(action_rx) >= 2
  /\ action_rx[1].src = "event"
  /\ Last(action_rx) = Msg(HomeAction("ExitProcessing"), "task")

\* C15: every action dequeued, lifecycle or domain, is passed to the update
\* of every registered component once, in registration order, and what the
\* updates return (here: what ModeSwitcher returns) is put on the bus behind
\* what was queued.
C15_EveryActionFansOut ==
  [][ DrainStep =>
        /\ fanout'.updated = components
        /\ ~fanout'.err
        /\ fanout'.returned = ModeSwitcher_update(mode_switcher, Head(action_rx).act).ret
        /\ action_rx' = Tail(action_rx) \o Tag(fanout'.returned, "update") ]_vars

C15_Witness ==
  /\ last = "drain" /\ trail.act = NavigateList("Down")
  /\ fanout.updated = components
  /\ fanout.returned = <<ChangeMode("Home")>>
  /\ Last(action_rx) = Msg(ChangeMode("Home"), "update")

\* C16: when the update of a component returns Err while an action is
\* dispatched, an Error action is on the bus, the components registered
\* after it have received the action, and run() has not returned.
C16_UpdateErrorBecomesAction ==
  fanout.err =>
    /\ pc # "failed"
    /\ fanout.updated = components
    /\ \E i \in 1..Len(action_rx) : action_rx[i].act[2] = "Error"

\* C17: when a draw returns Err in the redraw of a Render or Resize, one
\* Error action per failed draw is sent, every registered component is drawn,
\* the loop goes on with the drain pass, and the Error is dequeued and passed
\* to every component before the pass ends.
C17_DrawErrorBecomesAction ==
  [][ /\ (pc = "drain" /\ last' = "drain" /\ trail' = Head(action_rx)
            /\ trail'.act[2] \in {"Render", "Resize"} /\ action_rx' # action_rx) =>
           /\ fanout'.drawn = components
           /\ FromSrc(action_rx', "draw") =
                FromSrc(Tail(action_rx), "draw")
                  \o [k \in 1..Len(fanout'.draw_failed) |-> Msg(EngineError("Failed to draw"), "draw")]
           /\ components = RosterFailingDraw => pc' = "drain"
      /\ (pc' \in {"post", "await", "done"}) => FromSrc(action_rx', "draw") = <<>>
      /\ (last' = "drain" /\ trail'.src = "draw" /\ components = RosterFailingDraw) =>
           fanout'.updated = components ]_vars

C17_Witness ==
  /\ last = "drain" /\ trail = Msg(EngineError("Failed to draw"), "draw")
  /\ fanout.updated = components /\ pc = "drain"

\* C18 (as stated): an entry a background task sent after Quit had been
\* dequeued is never dequeued.  (Task entries leave the bus in the order they
\* were sent, so the one dequeued is such an entry exactly when all the task
\* entries queued are.)
C18_LateTaskActionNeverDequeued ==
  [][ (DrainStep /\ Head(action_rx).src = "task") => Len(FromSrc(action_rx, "task")) > late ]_vars

\* C18 (amended): once the drain pass that dequeued Quit has ended with no
\* suspension pending, the loop dequeues nothing more and no update is
\* called: what a task sends from then on stays on the bus.  What a task
\* sends while that pass is still running is dequeued like any other entry.
C18_NothingDequeuedAfterQuitPass ==
  [][ ((pc = "post" /\ should_quit /\ ~should_suspend) \/ pc = "done") =>
        /\ pc' \in {"post", "done"}
        /\ trail' = trail /\ fanout' = fanout /\ State' = State
        /\ IsPrefix(action_rx, action_rx') ]_vars

C18_Witness ==
  /\ pc = "done" /\ should_quit
  /\ late > 0 /\ Len(FromSrc(action_rx, "task")) = late

\* C19: for every action whose variant the deserializer has a form for,
\* decoding the text that Display produces gives back an equal action.
HasTextualForm(a) ==
  \/ a[1] = "Engine" /\ a[2] \in {"Tick", "Render", "Suspend", "Resume", "Quit", "Refresh", "ToggleShowHelp",
                                   "Error", "Resize"}
  \/ a[1] = "Home" /\ a[2] \in {"Help", "ScheduleIncrement", "ScheduleDecrement", "ToggleShowHelp",
                                 "EnterInsert", "EnterNormal", "NavigateList"}

C19_RoundTrip ==
  (codec.stage = "decoded" /\ HasTextualForm(codec.action)) =>
    /\ codec.decoded.tag = "Ok"
    /\ codec.decoded.action[1] = codec.action[1]
    /\ codec.decoded.action[2] = codec.action[2]
    /\ codec.decoded.action[3] = codec.action[3]

\* C20: a terminal event the loop receives is offered to the raw-event
\* handler of every registered component, in registration order, whatever
\* the resolver made of it; the step adds to the bus at most one action
\* derived from the event, and what the handlers send or return comes after it.
C20_EveryEventReachesHandlers ==
  [][ (\E e \in Events(config.keys) : HandleEvent(e)) =>
        LET new == SubSeq(action_rx', Len(action_rx) + 1, Len(action_rx'))
        IN /\ fanout'.handled = components
           /\ IsPrefix(action_rx, action_rx')
           /\ \A i \in 1..Len(new) : new[i].src \in {"event", "handler"}
           /\ \A i \in 1..Len(new) : new[i].src = "event" => i = 1 ]_vars

C20_Witness ==
  /\ last = "key" /\ emitted # <<>>
  /\ fanout.handled = components
  /\ Len(action_rx) >= 2
  /\ action_rx[1] = Msg(emitted[1], "event")
  /\ action_rx[2].src = "handler"

\* C21: the pass that dequeues a Render or a Resize redraws once, calling the
\* draw of every registered component once, in registration order, whether or
\* not an update of the same pass then returns Err and ends the run (the
\* redraw precedes the update fan-out); the pass that dequeues any other action draws nothing.
C21_RedrawOnRenderAndResize ==
  last = "drain" =>
    fanout.drawn = (IF trail.act[1] = "Engine" /\ trail.act[2] \in {"Render", "Resize"}
                    THEN components ELSE <<>>)

C21_Witness ==
  /\ last = "drain" /\ trail.act[2] = "Resize"
  /\ fanout.drawn = components /\ Len(components) = 4
  /\ fanout.err /\ fanout.updated = <<"MainMenu", "FailingUpdate">>

\* C22: before the loop awaits its first terminal event, run() has called
\* register_action_handler on every component, then register_config_handler
\* on every component, then init on every component, each in registration
\* order and each once; no such call is made afterwards, a suspension and
\* the Resume that follows included.
C22_StartupProtocol ==
  /\ pc = "new" => setup_calls = <<>> /\ last = "new" /\ action_rx = <<>> /\ fanout = NoFanout
  /\ pc # "new" =>
       /\ Len(setup_calls) = 3 * Len(components)
       /\ \A p \in 1..3, c \in 1..Len(components) :
            setup_calls[(p - 1) * Len(components) + c] = <<SetupPhases[p], components[c]>>

C22_Witness ==
  /\ last = "drain" /\ trail = Msg(Resume, "resume") /\ tui = "entered"
  /\ Len(setup_calls) = 3 * Len(components)
  /\ setup_calls[Len(components) + 1] = <<"register_config_handler", components[1]>>

\* A scheduled task has actions left to send, or actions of a task wait on the bus.
Outstanding ==
  \/ \E t \in TaskKinds \X TaskSteps : tasks[t] > 0
  \/ FromSrc(action_rx, "task") # <<>>

C24_CounterChangesOnlyWhileProcessing ==
  [][ (DrainStep /\ Head(action_rx).src = "task"
         /\ Head(action_rx).act[2] \in {"Increment", "Decrement"}) =>
        home.mode = "Processing" ]_vars

\* The ChangeMode entries on the bus, oldest first
ChangeModesQueued == SelectSeq(action_rx, LAMBDA m : m.act[2] = "ChangeMode")

\* The mode ModeSwitcher has selected
SelectedMode == MODES[mode_switcher.current_index + 1]

\* C25: when the loop awaits the next terminal event, no ChangeMode is left
\* on the bus and App.mode is the mode at ModeSwitcher's current_index.
\* Throughout, the ChangeMode entries leave the bus in the order the
\* switcher returned them: the newest one queued names the selected mode,
\* and with none queued App.mode is the selected mode.
C25_ModeFollowsSwitcher ==
  /\ pc \in {"await", "post"} => ChangeModesQueued = <<>> /\ mode = SelectedMode
  /\ IF ChangeModesQueued = <<>> THEN mode = SelectedMode
     ELSE Last(ChangeModesQueued).act = ChangeMode(SelectedMode)
  /\ \A i \in 1..Len(ChangeModesQueued) : ChangeModesQueued[i].src = "update"

C25_Witness ==
  /\ pc = "await" /\ last = "continue"
  /\ trail = Msg(ChangeMode("Home"), "update")
  /\ mode = "Home" /\ mode_switcher.current_index = 1

\* C26: ModeSwitcher's current_index stays within 0..|MODES|-1; a ChangeMode
\* that its update returns names the mode at the current_index the update
\* leaves; NavigateList(Up) at index 0 and NavigateList(Down) at the last
\* index leave the index where it is.
C26_SwitcherIndexInRange ==
  /\ [](mode_switcher.current_index \in 0..(Len(MODES) - 1))
  /\ [][ DrainStep =>
          LET a == Head(action_rx).act
              before == mode_switcher.current_index
              after == mode_switcher'.current_index
          IN /\ \A k \in 1..Len(fanout'.returned) :
                  fanout'.returned[k][2] = "ChangeMode" => fanout'.returned[k] = ChangeMode(MODES[after + 1])
             /\ (a = NavigateList("Up") /\ before = 0) => after = 0
             /\ (a = NavigateList("Down") /\ before = Len(MODES) - 1) => after = before
             /\ (a = NavigateList("Up") /\ before > 0) => after = before - 1
             /\ (a = NavigateList("Down") /\ before < Len(MODES) - 1) => after = before + 1
             /\ a[2] # "NavigateList" => after = before ]_vars

C26_Witness ==
  /\ last = "drain" /\ trail.act = NavigateList("Down")
  /\ mode = "Home" /\ mode_switcher.current_index = Len(MODES) - 1
  /\ fanout.returned = <<ChangeMode("Home")>>

\* The entries of fed whose key was appended to the buffer: those pressed
\* while the key had no binding of its own in the active mode.
FedPushed == SelectSeq(fed, LAMBDA f : ~SingleBound(f[2], f[1]))

\* The key step completed the chord s of the active mode.
ChordEmitted(s) ==
  /\ Len(s) >= 2
  /\ ~SingleBound(mode, Last(fed')[1])
  /\ last_tick_key_events' = s
  /\ emitted' = <<Keymap(mode)[s]>>

\* C27 (as stated): pressing a key that has a single-key binding in the
\* active mode emits that binding's action and leaves the buffer as it was,
\* whatever it holds; and no chord of the active mode that contains such a
\* key is ever emitted.
C27_BoundKeyNeverInEmittedChord ==
  [][ KeyStep =>
        LET k == Last(fed')[1]
        IN /\ SingleBound(mode, k) =>
                /\ emitted' = <<Keymap(mode)[<<k>>]>>
                /\ last_tick_key_events' = last_tick_key_events
           /\ \A s \in DOMAIN Keymap(mode) :
                (\E i \in 1..Len(s) : SingleBound(mode, s[i])) => ~ChordEmitted(s) ]_vars

\* C27 (amended): the first part as stated.  A chord of the active mode is
\* never emitted on a key that has a binding of its own in that mode, and a
\* chord that contains such a key is emitted only if that key was pressed
\* while another mode was active: the buffer is kept across a change of mode.
C27_BoundKeyInChordOnlyAcrossModes ==
  /\ [][ KeyStep =>
          LET k == Last(fed')[1]
          IN /\ SingleBound(mode, k) =>
                  /\ emitted' = <<Keymap(mode)[<<k>>]>>
                  /\ last_tick_key_events' = last_tick_key_events
             /\ \A s \in DOMAIN Keymap(mode) :
                  ChordEmitted(s) =>
                    /\ ~SingleBound(mode, s[Len(s)])
                    /\ \A i \in 1..Len(s) : SingleBound(mode, s[i]) => FedPushed'[i][2] # mode ]_vars
  /\ [](last_tick_key_events = [i \in 1..Len(FedPushed) |-> FedPushed[i][1]])

C27_Witness ==
  /\ last = "key" /\ mode = "Home"
  /\ Last(fed) = <<"g", "Home">>
  /\ emitted = <<ToggleShowHelp>>
  /\ last_tick_key_events = <<"g">>

\* C28 (as stated): Enter pressed while Home is in Insert mode enqueues
\* CompleteInput(the input text) before the EnterNormal the handler returns,
\* so that when the text is appended to Home's list, once, Home's mode has
\* not yet become Normal; in Normal and Processing modes Home's key handler
\* enqueues nothing.
C28_TextAppendedBeforeNormal ==
  [][ /\ (KeyStep /\ Contains(components, "Home")) =>
          LET k == Last(fed')[1]
              new == SubSeq(action_rx', Len(action_rx) + 1, Len(action_rx'))
              handler == FromSrc(new, "handler")
          IN /\ home.mode \in {"Normal", "Processing"} => handler = <<>>
             /\ (home.mode = "Insert" /\ k = "Enter") =>
                  handler = <<Msg(CompleteInput(home.input), "handler"),
                              Msg(HomeAction("EnterNormal"), "handler")>>
      /\ (DrainStep /\ Head(action_rx).act[2] = "CompleteInput" /\ Contains(components, "Home")) =>
          /\ home'.text = Append(home.text, Head(action_rx).act[3])
          /\ home.mode # "Normal" ]_vars

\* C28 (amended): with Home registered, a key pressed while Home is in Normal or
\* Processing mode makes Home's key handler enqueue nothing; Enter pressed
\* while Home is in Insert mode makes it enqueue CompleteInput(the input
\* text) and, right behind it, EnterNormal.  Home's list changes only when a
\* CompleteInput is dequeued: its text is appended once, Home's mode is left
\* as it is, and the EnterNormal the handler returned is still queued behind.
\* Home's mode at that moment is whatever the actions queued ahead made it.
C28_EnterCompletesInput ==
  /\ [][ (KeyStep /\ Contains(components, "Home")) =>
          LET k == Last(fed')[1]
              new == SubSeq(action_rx', Len(action_rx) + 1, Len(action_rx'))
              handler == FromSrc(new, "handler")
          IN /\ home.mode \in {"Normal", "Processing"} => handler = <<>>
             /\ (home.mode = "Insert" /\ k = "Enter") =>
                  /\ handler = <<Msg(CompleteInput(home.input), "handler"),
                                 Msg(HomeAction("EnterNormal"), "handler")>>
                  /\ SubSeq(new, Len(new) - 1, Len(new)) = handler ]_vars
  /\ [][ home'.text # home.text =>
          /\ DrainStep
          /\ Head(action_rx).act[2] = "CompleteInput"
          /\ home'.text = Append(home.text, Head(action_rx).act[3])
          /\ home'.mode = home.mode
          /\ \E i \in 2..Len(action_rx) : action_rx[i] = Msg(HomeAction("EnterNormal"), "handler") ]_vars
  /\ [][ (DrainStep /\ Head(action_rx).act[2] = "CompleteInput" /\ Contains(components, "Home")) =>
          home'.text # home.text ]_vars

C28_Witness ==
  /\ last = "drain" /\ trail = Msg(CompleteInput(<<"i">>), "handler")
  /\ home.text = <<(<<"i">>)>> /\ home.mode = "Normal"
  /\ action_rx = <<Msg(HomeAction("EnterNormal"), "handler")>>

====
